---- MODULE Spec2Model ----
(***************************************************************************)
(* Multi-Agent-XR client: the scene database and its SceneQuery interface  *)
(* (webXR/sceneLoader.js), the WebSocket manager (middleware/wsManager.js) *)
(* and the scene control module (middleware/sceneControl.js): remote       *)
(* position/rotation updates applied through gsap tweens, and the head     *)
(* tracking publisher.                                                     *)
(***************************************************************************)
EXTENDS Integers, Sequences, FiniteSets, TLC

VARIABLES
    objects,        \* sceneLoader.js: this.db.objects, the array of scene objects
    storeCall,      \* the last SceneQuery call: its arguments, result and the array before it
    structure,      \* sceneLoader.js: sceneDatabase.structure, the floor and the walls
    sceneDatabase,  \* sceneLoader.js: the module variable sceneDatabase
    loaderCall,     \* the last call of the loader: its argument, its outcome, the loads before it
    queries,        \* this.db of every SceneQuery constructed through the loader module
    sockets,        \* every WebSocket object created so far: its readyState
    wsCur,          \* wsManager.js: the module variable ws (index into sockets, 0 = null)
    timers,         \* pending setTimeout(() => setupWebSocket(...), 3000) callbacks
    chanEvent,      \* the last socket event handled and what its handler did
    shutdown,       \* the owner of the returned socket has called close() on it
    page,           \* window.location of the page: protocol and hostname
    urls,           \* the URL each WebSocket object was constructed with
    net,            \* frames the authority has written to the open socket, not yet delivered
    authority,      \* the authority's last broadcast value per object id and property
    broadcasts,     \* number of frames the authority has produced
    loadedObjects,  \* the Map objectId -> THREE object (index into sceneObjs, 0 = no entry)
    sceneObjs,      \* the THREE objects added to the scene: position, rotation, running tweens
    pendingLoads,   \* gltfLoader.load calls of loadObjects whose callback has not run yet
    addLoads,       \* gltfLoader.load calls of addObjectToScene whose callback has not run yet
    adds,           \* number of addObjectToScene calls made
    dispatch,       \* the last frame handed to ws.onmessage and what the handler did
    goals,          \* per object id: the last update handed to gsap for its registered object
    hWs,            \* sceneControl.js: the module variable ws (index into sockets, 0 = null)
    isTracking,     \* sceneControl.js: the module variable isTracking
    tick,           \* the last render tick: what updateHeadTracking saw and did
    ticks,          \* render ticks on which updateHeadTracking ran
    eligible,       \* ticks with tracking on, a pose and the bound socket OPEN
    sent,           \* head_position_update messages written to a socket
    headCall,       \* the last function of the head tracking API that was called
    euler           \* the last quaternion_to_euler call: its argument and its result

storeVars == <<objects, storeCall, structure, sceneDatabase, loaderCall, queries>>
chanVars == <<sockets, wsCur, timers, chanEvent, shutdown, page, urls>>
syncVars == <<net, authority, broadcasts, loadedObjects, sceneObjs, pendingLoads, addLoads,
             adds, dispatch, goals>>
headVars == <<hWs, isTracking, tick, ticks, eligible, sent, headCall, euler>>
vars == <<storeVars, chanVars, syncVars, headVars>>

----------------------------------------------------------------------------
(* Bounds of the model *)

MaxObjects == 2
MaxSockets == 3
MaxBroadcasts == 2
MaxAdds == 2
MaxTweens == 2
MaxTicks == 3
QScale == 2
TweenTicks == 2

----------------------------------------------------------------------------
(* Values *)

Axes == {"x", "y", "z"}
AxisVals == {0, 1}

Vec(a, b, c) == [x |-> a, y |-> b, z |-> c]

\* every object literal {x?, y?, z?} a caller can pass as newPosition
PartialPositions == UNION {[S -> AxisVals] : S \in SUBSET Axes}

StoreIds == {"chair_01", "table_01"}
NoId == "ghost_99"

Entity(i, p) == [id |-> i, position |-> p]

----------------------------------------------------------------------------
(* SceneQuery over this.db.objects *)

IndexOf(objs, id) ==
    IF \E k \in 1..Len(objs) : objs[k].id = id
    THEN CHOOSE k \in 1..Len(objs) :
            /\ objs[k].id = id
            /\ \A j \in 1..(k - 1) : objs[j].id # id
    ELSE 0

\* getObjectById: Array.prototype.find, the first object with that id (0 = undefined)
getObjectById(objs, id) == IndexOf(objs, id)

\* { ...obj.position, ...newPosition }
Spread(p, np) ==
    [a \in (DOMAIN p) \cup (DOMAIN np) |-> IF a \in DOMAIN np THEN np[a] ELSE p[a]]

SpreadKeepsOld(p, np) ==
    [a \in (DOMAIN p) \cup (DOMAIN np) |-> IF a \in DOMAIN p THEN p[a] ELSE np[a]]

MergePosition(p, np) == Spread(p, np)

WriteFirstWithId(objs, id, np) ==
    [objs EXCEPT ![getObjectById(objs, id)].position = MergePosition(@, np)]

\* the array after obj.position = {...} on the object getObjectById returned
WritePosition(objs, id, np) == WriteFirstWithId(objs, id, np)

AppendAnyway(objs, id, np) == Append(objs, Entity(id, Spread(Vec(0, 0, 0), np)))

\* what SceneQuery.updateObjectPosition does when getObjectById returns undefined
UnknownIdEffect(objs, id, np) == objs

RemoveAt(objs, k) == SubSeq(objs, 1, k - 1) \o SubSeq(objs, k + 1, Len(objs))

RemoveEvery(objs, id, k) == SelectSeq(objs, LAMBDA obj : obj.id # id)

\* what removeObject does to the array once findIndex has found the id at index k:
\* this.db.objects.splice(index, 1)
spliceFound(objs, id, k) == RemoveAt(objs, k)

NoStoreCall == [op |-> "none", id |-> NoId, arg |-> Vec(0, 0, 0), ret |-> "none",
                before |-> <<>>]

SceneQuery_updateObjectPosition(id, np) ==
    /\ LET found == getObjectById(objects, id) # 0
       IN  /\ objects' = IF found THEN WritePosition(objects, id, np)
                         ELSE UnknownIdEffect(objects, id, np)
           /\ storeCall' = [op |-> "updateObjectPosition", id |-> id, arg |-> np,
                            ret |-> IF found THEN "true" ELSE "false",
                            before |-> objects]
    /\ UNCHANGED <<structure, sceneDatabase, loaderCall, queries, chanVars, syncVars, headVars>>

SceneQuery_addObject(objectData) ==
    /\ Len(objects) < MaxObjects
    /\ objects' = Append(objects, objectData)
    /\ storeCall' = [op |-> "addObject", id |-> objectData.id, arg |-> objectData.position,
                     ret |-> objectData.id, before |-> objects]
    /\ UNCHANGED <<structure, sceneDatabase, loaderCall, queries, chanVars, syncVars, headVars>>

SceneQuery_removeObject(id) ==
    /\ LET index == IndexOf(objects, id)
       IN  /\ objects' = IF index # 0 THEN spliceFound(objects, id, index) ELSE objects
           /\ storeCall' = [op |-> "removeObject", id |-> id, arg |-> Vec(0, 0, 0),
                            ret |-> IF index # 0 THEN "true" ELSE "false",
                            before |-> objects]
    /\ UNCHANGED <<structure, sceneDatabase, loaderCall, queries, chanVars, syncVars, headVars>>

\* Math.sqrt(dx*dx + dy*dy + dz*dz) <= radius, on integer coordinates and radii:
\* the root of d2 is at most r exactly when some n in 0..r has n*n >= d2
SqrtAtMost(d2, r) == \E n \in 0..r : n * n >= d2

SqrtBelow(d2, r) == \E n \in 0..r : n * n > d2

DistanceSquared(p, q) ==
    LET dx == p.x - q.x
        dy == p.y - q.y
        dz == p.z - q.z
    IN  dx * dx + dy * dy + dz * dz

\* return distance <= radius
NearEnough(d2, r) == SqrtAtMost(d2, r)

DefaultRadius == 1

\* getObjectsNearPosition(position, radius = 1.0): Array.prototype.filter
getObjectsNearPosition(objs, position, radius) ==
    SelectSeq(objs, LAMBDA obj : NearEnough(DistanceSquared(obj.position, position), radius))

QueryPoints == {Vec(0, 0, 0), Vec(1, 0, 1), Vec(1, 1, 1)}
QueryRadii == {0, 1, 2}

SceneQuery_getObjectsNearPosition(position, given, radius) ==
    /\ objects' = objects
    /\ storeCall' = [op |-> "getObjectsNearPosition", id |-> NoId, arg |-> position,
                     ret |-> "list", before |-> objects,
                     given |-> given, radius |-> radius,
                     result |-> getObjectsNearPosition(objects, position,
                                    IF given THEN radius ELSE DefaultRadius)]
    /\ UNCHANGED <<structure, sceneDatabase, loaderCall, queries, chanVars, syncVars, headVars>>

----------------------------------------------------------------------------
(* wsManager.js: the socket, its handlers and the reconnect timer *)

ReadyStates == {"CONNECTING", "OPEN", "CLOSING", "CLOSED"}

SocketIds == 1..Len(sockets)

\* the state of the connection the module variable ws of wsManager.js refers to
ChannelState ==
    IF wsCur = 0 THEN "None"
    ELSE IF sockets[wsCur] = "CONNECTING" THEN "Connecting"
    ELSE IF sockets[wsCur] = "OPEN" THEN "Open"
    ELSE IF sockets[wsCur] = "CLOSING" THEN "Closing"
    ELSE "Disconnected"

NoReconnect(n) == n

\* ws.onclose: setTimeout(() => setupWebSocket(loadedObjects), 3000)
oncloseTimers(n) == n + 1

ErrorReconnects(n) == n + 1

\* ws.onerror: console.error only
onerrorTimers(n) == n

WsPort == 8000

\* window.location of the pages the client is served from: the development server
\* on the machine of the browser, and the host a headset reaches over the network
Location(protocol, hostname) == [protocol |-> protocol, hostname |-> hostname]
LocalPage == Location("http:", "localhost")
Pages == {Location(pr, h) : pr \in {"http:", "https:"}, h \in {"localhost", "10.0.0.97"}}

Url(scheme, hostname, port, path) ==
    [scheme |-> scheme, hostname |-> hostname, port |-> port, path |-> path]

\* new WebSocket('ws://localhost:8000/ws/scene'): the literal does not read
\* window.location
WsUrl(location) == Url("ws:", "localhost", WsPort, "/ws/scene")

\* setupWebSocket: ws = new WebSocket(url), handlers attached to the new socket
setupWebSocket ==
    /\ sockets' = Append(sockets, "CONNECTING")
    /\ urls' = Append(urls, WsUrl(page))
    /\ wsCur' = Len(sockets) + 1

\* the application's call of setupWebSocket(loadedObjects) at start-up
SetupCall ==
    /\ sockets = <<>>
    /\ setupWebSocket
    /\ chanEvent' = "setup"
    /\ UNCHANGED <<timers, shutdown, page, storeVars, syncVars, headVars>>

\* the browser opens the connection; no onopen handler is installed
SocketOpen(s) ==
    /\ sockets[s] = "CONNECTING"
    /\ sockets' = [sockets EXCEPT ![s] = "OPEN"]
    /\ chanEvent' = "open"
    /\ UNCHANGED <<wsCur, timers, shutdown, page, urls, storeVars, syncVars, headVars>>

SocketError(s) ==
    /\ sockets[s] # "CLOSED"
    /\ timers' = onerrorTimers(timers)
    /\ chanEvent' = "error"
    /\ UNCHANGED <<sockets, wsCur, shutdown, page, urls, storeVars, syncVars, headVars>>

\* the close event of a socket that was connecting or open, clean or not
SocketClose(s) ==
    /\ sockets[s] # "CLOSED"
    /\ Len(sockets) < MaxSockets
    /\ sockets' = [sockets EXCEPT ![s] = "CLOSED"]
    /\ timers' = oncloseTimers(timers)
    /\ chanEvent' = "close"
    /\ net' = IF s = wsCur THEN <<>> ELSE net
    /\ UNCHANGED <<wsCur, shutdown, page, urls, storeVars, authority, broadcasts,
                   loadedObjects, sceneObjs, pendingLoads, addLoads, adds, dispatch, goals,
                   headVars>>

\* the 3000 ms timer of onclose fires
ReconnectTimer ==
    /\ timers > 0
    /\ timers' = timers - 1
    /\ setupWebSocket
    /\ chanEvent' = "timer"
    /\ UNCHANGED <<shutdown, page, storeVars, syncVars, headVars>>

\* the caller that holds the socket calls close() on it: a socket that is connecting
\* or open starts closing and its close event follows; on any other socket close()
\* does nothing
OwnerClose(s) ==
    /\ ~shutdown
    /\ shutdown' = TRUE
    /\ sockets' = IF sockets[s] \in {"CONNECTING", "OPEN"}
                  THEN [sockets EXCEPT ![s] = "CLOSING"]
                  ELSE sockets
    /\ chanEvent' = "shutdown"
    /\ UNCHANGED <<wsCur, timers, page, urls, storeVars, syncVars, headVars>>

ChannelNext ==
    \/ SetupCall
    \/ \E s \in SocketIds : SocketOpen(s)
    \/ \E s \in SocketIds : SocketError(s)
    \/ \E s \in SocketIds : SocketClose(s)
    \/ ReconnectTimer

----------------------------------------------------------------------------
(* sceneControl.js: head tracking *)

\* the sockets the application holds: the one its own setupWebSocket call returned
HeldSockets == IF sockets = <<>> THEN {} ELSE {1}

PoseInputs == {"noframe", "norefspace", "nopose", "pose"}

\* the module variables of the head tracking publisher
Publisher(websocket, tracking) == [ws |-> websocket, isTracking |-> tracking]

initAndStop(pub, websocket) == Publisher(websocket, FALSE)

\* the body of initHeadTracking: ws = websocket
bindChannel(pub, websocket) == [pub EXCEPT !.ws = websocket]

initHeadTracking(websocket) ==
    /\ hWs' = bindChannel(Publisher(hWs, isTracking), websocket).ws
    /\ isTracking' = bindChannel(Publisher(hWs, isTracking), websocket).isTracking
    /\ headCall' = "initHeadTracking"
    /\ UNCHANGED <<tick, ticks, eligible, sent, euler, storeVars, chanVars, syncVars>>

startHeadTracking ==
    /\ isTracking' = TRUE
    /\ headCall' = "startHeadTracking"
    /\ UNCHANGED <<hWs, tick, ticks, eligible, sent, euler, storeVars, chanVars, syncVars>>

stopHeadTracking ==
    /\ isTracking' = FALSE
    /\ headCall' = "stopHeadTracking"
    /\ UNCHANGED <<hWs, tick, ticks, eligible, sent, euler, storeVars, chanVars, syncVars>>

PassesIgnoringFlag(tracking, bound, socks) ==
    bound # 0 /\ socks[bound] = "OPEN"

PassesIfNotClosed(tracking, bound, socks) ==
    tracking /\ bound # 0 /\ socks[bound] # "CLOSED"

\* if (!isTracking || !ws || ws.readyState !== WebSocket.OPEN) return;
PassesSocketGuard(tracking, bound, socks) ==
    tracking /\ bound # 0 /\ socks[bound] = "OPEN"

PassesIfFrame(input) == input \notin {"noframe", "norefspace"}

\* if (!frame || !referenceSpace) return;  pose = frame.getViewerPose(...); if (!pose) return;
PassesPoseGuard(input) == input = "pose"

updateHeadTracking(input) ==
    /\ ticks < MaxTicks
    /\ ticks' = ticks + 1
    /\ LET sends == PassesSocketGuard(isTracking, hWs, sockets) /\ PassesPoseGuard(input)
           boundOpen == hWs # 0 /\ sockets[hWs] = "OPEN"
       IN  /\ sent' = IF sends THEN sent + 1 ELSE sent
           /\ eligible' = IF isTracking /\ input = "pose" /\ boundOpen
                          THEN eligible + 1 ELSE eligible
           /\ tick' = [tracking |-> isTracking, input |-> input, bound |-> hWs,
                       boundState |-> IF hWs = 0 THEN "none" ELSE sockets[hWs],
                       channel |-> ChannelState, reconnects |-> Len(sockets) - 1,
                       wrote |-> IF sends THEN 1 ELSE 0]
    /\ headCall' = "updateHeadTracking"
    /\ UNCHANGED <<hWs, isTracking, euler, storeVars, chanVars, syncVars>>

NoTick == [tracking |-> FALSE, input |-> "none", bound |-> 0, boundState |-> "none",
           channel |-> "None", reconnects |-> 0, wrote |-> 0]

\* Quaternion components are multiples of 1/QScale; products of two components are
\* multiples of 1/QOne, so 1 is QOne in the unit of sinp, sinr_cosp, cosr_cosp, ...
QOne == QScale * QScale
Quat(x, y, z, w) == [x |-> x, y |-> y, z |-> z, w |-> w]
Quats == [x : -QScale..QScale, y : -QScale..QScale, z : -QScale..QScale,
          w : -QScale..QScale]
IdentityQuat == Quat(0, 0, 0, QScale)

Abs(n) == IF n < 0 THEN -n ELSE n
Sign(n) == IF n > 0 THEN 1 ELSE IF n < 0 THEN -1 ELSE 0

\* angles are kept as the expression that produced them, with the values the
\* functions take at the ends of their domains written out
Angle(fn, y, x) == [fn |-> fn, y |-> y, x |-> x]
ZeroAngle == Angle("zero", 0, 1)
NaN == Angle("NaN", 0, 0)
\* Math.sign(sinp) * Math.PI / 2
HalfPi(sign) == Angle("halfpi", sign, 1)

\* Math.asin(n / one): NaN outside [-1, 1], +-pi/2 at +-1, 0 at 0
Asin(n, one) ==
    IF Abs(n) > one THEN NaN
    ELSE IF n = 0 THEN ZeroAngle
    ELSE IF Abs(n) = one THEN HalfPi(Sign(n))
    ELSE Angle("asin", n, one)

\* Math.atan2(y, x): defined for all finite arguments, 0 for y = 0 and x >= 0
Atan2(y, x) ==
    IF y = 0 /\ x >= 0 THEN ZeroAngle ELSE Angle("atan2", y, x)

asinAlways(sinp, one) == Asin(sinp, one)

\* Math.abs(sinp) >= 1 ? Math.sign(sinp) * Math.PI / 2 : Math.asin(sinp)
pitchOf(sinp, one) ==
    IF Abs(sinp) >= one THEN HalfPi(Sign(sinp)) ELSE Asin(sinp, one)

Sinp(q) == 2 * (q.w * q.y - q.z * q.x)

quaternion_to_euler(q) ==
    LET sinr_cosp == 2 * (q.w * q.x + q.y * q.z)
        cosr_cosp == QOne - 2 * (q.x * q.x + q.y * q.y)
        siny_cosp == 2 * (q.w * q.z + q.x * q.y)
        cosy_cosp == QOne - 2 * (q.y * q.y + q.z * q.z)
    IN  [x |-> Atan2(sinr_cosp, cosr_cosp),
         y |-> pitchOf(Sinp(q), QOne),
         z |-> Atan2(siny_cosp, cosy_cosp)]

NoEuler == [called |-> FALSE, q |-> IdentityQuat,
            out |-> [x |-> ZeroAngle, y |-> ZeroAngle, z |-> ZeroAngle]]

\* const euler = quaternion_to_euler(orientation), for one orientation of the pose
EulerCall(q) ==
    /\ euler' = [called |-> TRUE, q |-> q, out |-> quaternion_to_euler(q)]
    /\ UNCHANGED <<hWs, isTracking, tick, ticks, eligible, sent, headCall, storeVars,
                   chanVars, syncVars>>

HeadNext ==
    \/ \E w \in HeldSockets \cup {0} : initHeadTracking(w)
    \/ startHeadTracking
    \/ stopHeadTracking
    \/ \E input \in PoseInputs : updateHeadTracking(input)

----------------------------------------------------------------------------
(* Frames of the authority, the Map loadedObjects and the scene objects *)

RegIds == StoreIds \cup {NoId}

ZeroVec == Vec(0, 0, 0)
U1 == Vec(4, 2, 2)
U2 == Vec(2, 4, 0)
R1 == Vec(0, 2, 0)

PosType == "object_position_updated"
RotType == "object_rotation_updated"
SavedType == "scene_saved"

\* a frame: whether event.data parses as JSON, message.type, whether message.data
\* is present, data.objectId, whether data.position / data.rotation is present, and
\* its value
Frame(j, t, d, i, f, v) ==
    [json |-> j, type |-> t, hasData |-> d, objectId |-> i, hasField |-> f, val |-> v]

PosFrame(i, v) == Frame(TRUE, PosType, TRUE, i, TRUE, v)
RotFrame(i, v) == Frame(TRUE, RotType, TRUE, i, TRUE, v)

UpdateFrames ==
    {PosFrame(i, v) : i \in RegIds, v \in {U1, U2}} \cup {RotFrame("chair_01", R1)}

FaultyFrames ==
    { Frame(FALSE, "", FALSE, NoId, FALSE, ZeroVec),
      Frame(TRUE, "", FALSE, NoId, FALSE, ZeroVec),
      Frame(TRUE, "object_added", TRUE, "chair_01", TRUE, U1),
      Frame(TRUE, PosType, FALSE, NoId, FALSE, ZeroVec),
      Frame(TRUE, PosType, TRUE, "chair_01", FALSE, ZeroVec),
      Frame(TRUE, RotType, TRUE, "chair_01", FALSE, ZeroVec) }

SavedFrame == Frame(TRUE, SavedType, FALSE, NoId, FALSE, ZeroVec)

Frames == UpdateFrames \cup FaultyFrames \cup {SavedFrame}

PropOf(type) == IF type = PosType THEN "position" ELSE "rotation"

SceneObj(i, p, r) == [id |-> i, position |-> p, rotation |-> r, tweens |-> <<>>]

\* gsap.to(target, {x, y, z, duration: 0.5}): a new tween towards the given values,
\* starting from the target's current values; tweens already running are kept
\* gsap.to(threeObject[prop], {x, y, z, duration, ease: "power2.inOut"}), the
\* duration in ticks
gsap_to_for(objs, h, prop, v, dur) ==
    [objs EXCEPT ![h].tweens =
        Append(@, [prop |-> prop, from |-> objs[h][prop], to |-> v, t |-> 0,
                   dur |-> dur])]

\* duration: 0.5
gsap_to(objs, h, prop, v) == gsap_to_for(objs, h, prop, v, TweenTicks)

\* threeObject[prop].set(v.x, v.y, v.z): the value is written at once, no tween
setDirectly(objs, h, prop, v) == [objs EXCEPT ![h][prop] = v]

gsap_to_unlessRunning(objs, h, prop, v) ==
    IF \E k \in 1..Len(objs[h].tweens) : objs[h].tweens[k].prop = prop
    THEN objs
    ELSE gsap_to(objs, h, prop, v)

Outcome(reg, objs, out) == [reg |-> reg, objs |-> objs, out |-> out]

\* updateObjectPosition / updateObjectRotation without the if (threeObject) test
updateObjectNoCheck(frame, reg, objs) ==
    IF ~frame.hasData THEN Outcome(reg, objs, "threw")
    ELSE IF reg[frame.objectId] = 0 \/ ~frame.hasField THEN Outcome(reg, objs, "threw")
    ELSE Outcome(reg, gsap_to(objs, reg[frame.objectId], PropOf(frame.type), frame.val),
                 "tween")

\* the tween started for a registered object
startTween(objs, h, prop, v) == gsap_to(objs, h, prop, v)

\* updateObjectPosition(data, loadedObjects) and updateObjectRotation(data, loadedObjects):
\* data undefined throws at data.objectId; a registered object with data.position
\* undefined throws at data.position.x before gsap.to is called; an id without entry
\* is warned about
updateObject(frame, reg, objs) ==
    IF ~frame.hasData THEN Outcome(reg, objs, "threw")
    ELSE IF reg[frame.objectId] # 0
         THEN IF ~frame.hasField THEN Outcome(reg, objs, "threw")
              ELSE Outcome(reg,
                           startTween(objs, reg[frame.objectId], PropOf(frame.type),
                                      frame.val),
                           "tween")
         ELSE Outcome(reg, objs, "warned")

\* a switch whose scene_saved and default cases reload the scene: running tweens end
onmessageReloads(frame, reg, objs) ==
    IF ~frame.json THEN Outcome(reg, objs, "threw")
    ELSE IF frame.type \in {PosType, RotType} THEN updateObject(frame, reg, objs)
    ELSE Outcome(reg, [h \in 1..Len(objs) |-> [objs[h] EXCEPT !.tweens = <<>>]],
                 IF frame.type = SavedType THEN "saved" ELSE "ignored")

\* ws.onmessage: JSON.parse, then the switch on message.type
onmessage(frame, reg, objs) ==
    IF ~frame.json THEN Outcome(reg, objs, "threw")
    ELSE IF frame.type \in {PosType, RotType} THEN updateObject(frame, reg, objs)
    ELSE IF frame.type = SavedType THEN Outcome(reg, objs, "saved")
    ELSE Outcome(reg, objs, "ignored")

CloseOnFault(socks, s, out) ==
    IF out \in {"threw", "ignored"} THEN [socks EXCEPT ![s] = "CLOSED"] ELSE socks

\* what the handler does to the socket: nothing, it never calls ws.close(), and an
\* exception thrown in it is reported by the browser and ends this call only
onmessageSockets(socks, s, out) == socks

IsUpdate(frame) == frame.json /\ frame.type \in {PosType, RotType}
WellFormed(frame) == IsUpdate(frame) /\ frame.hasData /\ frame.hasField
Faulty(frame) ==
    \/ ~frame.json
    \/ frame.type \notin {PosType, RotType, SavedType}
    \/ IsUpdate(frame) /\ ~(frame.hasData /\ frame.hasField)

NoGoal == [hasPosition |-> FALSE, position |-> ZeroVec,
           hasRotation |-> FALSE, rotation |-> ZeroVec,
           overrode |-> FALSE, superseded |-> ZeroVec,
           received |-> <<>>, whileRegistered |-> <<>>, targets |-> <<>>]

\* the property and end value of the tweens objs holds beyond the first n of them
TargetsAfter(tweens, n) ==
    [k \in 1..(Len(tweens) - n) |-> [prop |-> tweens[n + k].prop, val |-> tweens[n + k].to]]

\* the history of one id after a message was handled: the update received, whether
\* the id had a registry entry then, and the tweens the handler started on its object
Logged(goal, i, frame, reg, before, after) ==
    LET entry == [prop |-> PropOf(frame.type), val |-> frame.val]
        mine == WellFormed(frame) /\ frame.objectId = i
    IN  [goal EXCEPT
           !.received = IF mine THEN Append(@, entry) ELSE @,
           !.whileRegistered = IF mine /\ reg[i] # 0 THEN Append(@, entry) ELSE @,
           !.targets = IF reg[i] = 0 THEN @
                       ELSE @ \o TargetsAfter(after[reg[i]].tweens,
                                              Len(before[reg[i]].tweens))]

SetValue(rec, prop, v) ==
    IF prop = "position"
    THEN [rec EXCEPT !.hasPosition = TRUE, !.position = v]
    ELSE [rec EXCEPT !.hasRotation = TRUE, !.rotation = v]

Running(obj, prop) == SelectSeq(obj.tweens, LAMBDA tw : tw.prop = prop)

\* the authority broadcasts a frame: it reaches the client only over an open socket
Broadcast(frame) ==
    /\ broadcasts < MaxBroadcasts
    /\ broadcasts' = broadcasts + 1
    /\ authority' = IF WellFormed(frame) /\ frame.objectId \in StoreIds
                    THEN [authority EXCEPT ![frame.objectId] =
                            SetValue(@, PropOf(frame.type), frame.val)]
                    ELSE authority
    /\ net' = IF ChannelState = "Open" THEN Append(net, frame) ELSE net
    /\ UNCHANGED <<loadedObjects, sceneObjs, pendingLoads, addLoads, adds, dispatch, goals,
                   storeVars, chanVars, headVars>>

\* the message event of the open socket, for the oldest frame in flight
OnMessage ==
    /\ ChannelState = "Open"
    /\ net # <<>>
    /\ LET frame == Head(net)
           r == onmessage(frame, loadedObjects, sceneObjs)
           h == loadedObjects[frame.objectId]
           prop == PropOf(frame.type)
       IN  /\ net' = Tail(net)
           /\ loadedObjects' = r.reg
           /\ sceneObjs' = r.objs
           /\ sockets' = onmessageSockets(sockets, wsCur, r.out)
           /\ dispatch' = [n |-> dispatch.n + 1, frame |-> frame, out |-> r.out,
                           faults |-> dispatch.faults \/ Faulty(frame)]
           /\ goals' =
                 LET set == IF WellFormed(frame) /\ h # 0
                       THEN [goals EXCEPT ![frame.objectId] =
                               [SetValue(@, prop, frame.val) EXCEPT
                                  !.overrode =
                                      IF prop = "position"
                                      THEN Running(sceneObjs[h], prop) # <<>>
                                      ELSE @,
                                  !.superseded =
                                      IF prop = "position" /\ Running(sceneObjs[h], prop) # <<>>
                                      THEN Running(sceneObjs[h], prop)[1].to
                                      ELSE @]]
                       ELSE goals
                 IN  [i \in RegIds |->
                        Logged(set[i], i, frame, loadedObjects, sceneObjs, r.objs)]
    /\ UNCHANGED <<wsCur, timers, chanEvent, shutdown, page, urls, authority, broadcasts,
                   pendingLoads, addLoads, adds, storeVars, headVars>>

\* Math.PI, in the unit of the rotation values of the model (pi/2 is 2)
PiUnits == 4

Structural(i, p, r) == [id |-> i, position |-> p, rotation |-> r]

\* sceneDatabase.structure of the scene: a floor, a wall with rotation.y = 0 and a
\* wall turned about the y axis
SceneStructure ==
    [floor |-> Structural("floor", Vec(0, 0, 0), Vec(-2, 0, 0)),
     walls |-> <<Structural("wall_1", Vec(0, 1, -2), Vec(0, 0, 0)),
                 Structural("wall_2", Vec(-2, 1, 0), Vec(0, 2, 0))>>]

bothUnderWallId(id) == [front |-> id, back |-> id]

\* `${wallData.id}_front` and `${wallData.id}_back`
WallKeys(id) == [front |-> id \o "_front", back |-> id \o "_back"]

\* wall2.rotation.set(x + (y === 0 ? Math.PI : 0), y + (y !== 0 ? Math.PI : 0), z)
BackRotation(r) ==
    [x |-> r.x + (IF r.y = 0 THEN PiUnits ELSE 0),
     y |-> r.y + (IF r.y # 0 THEN PiUnits ELSE 0),
     z |-> r.z]

\* every key loadedObjects.set is called with for the scene, and the ids of the walls
RegistryKeys ==
    RegIds \cup {"lamp_01"} \cup {SceneStructure.floor.id}
           \cup UNION {{SceneStructure.walls[k].id,
                        SceneStructure.walls[k].id \o "_front",
                        SceneStructure.walls[k].id \o "_back"} :
                       k \in 1..Len(SceneStructure.walls)}

Scene(reg, objs) == [reg |-> reg, objs |-> objs]

\* scene.add(mesh); loadedObjects.set(key, mesh)
AddMesh(sc, key, mesh) ==
    Scene([sc.reg EXCEPT ![key] = Len(sc.objs) + 1], Append(sc.objs, mesh))

\* the body of walls.forEach: the front face, the back face, then the two entries
RECURSIVE loadWalls(_, _)
loadWalls(walls, sc) ==
    IF walls = <<>> THEN sc
    ELSE LET wallData == Head(walls)
             keys == WallKeys(wallData.id)
             wall1 == SceneObj(wallData.id \o "_front", wallData.position,
                               wallData.rotation)
             wall2 == SceneObj(wallData.id \o "_back", wallData.position,
                               BackRotation(wallData.rotation))
             added == Scene(sc.reg, sc.objs \o <<wall1, wall2>>)
             front == [added EXCEPT !.reg[keys.front] = Len(sc.objs) + 1]
             back == [front EXCEPT !.reg[keys.back] = Len(sc.objs) + 2]
         IN  loadWalls(Tail(walls), back)

\* loadStructure: the floor mesh and its entry, then the walls
loadStructure(st, sc) ==
    loadWalls(st.walls,
              AddMesh(sc, st.floor.id,
                      SceneObj(st.floor.id, st.floor.position, st.floor.rotation)))

EmptyScene == Scene([k \in RegistryKeys |-> 0], <<>>)

\* setupScene: loadStructure, then loadObjects starts one load per object of the
\* database
SetupScene ==
    /\ sceneObjs = <<>>
    /\ pendingLoads = {}
    /\ LET sc == loadStructure(structure, Scene(loadedObjects, sceneObjs))
       IN  /\ loadedObjects' = sc.reg
           /\ sceneObjs' = sc.objs
    /\ pendingLoads' = {objects[k].id : k \in 1..Len(objects)}
    /\ UNCHANGED <<net, authority, broadcasts, addLoads, adds, dispatch, goals, storeVars,
                   chanVars, headVars>>

\* loadObjects: the gltfLoader.load success callback of one object of the database
LoadComplete(id) ==
    /\ id \in pendingLoads
    /\ pendingLoads' = pendingLoads \ {id}
    /\ sceneObjs' = Append(sceneObjs,
                           SceneObj(id, objects[getObjectById(objects, id)].position, ZeroVec))
    /\ loadedObjects' = [loadedObjects EXCEPT ![id] = Len(sceneObjs) + 1]
    /\ UNCHANGED <<net, authority, broadcasts, addLoads, adds, dispatch, goals, storeVars,
                   chanVars, headVars>>

\* the ids agentAPI.moveObject is called with: an object of the database, the floor
\* (in the registry, not among the objects of the database) and an id nobody has
MoveIds == {"chair_01", "floor", NoId}

\* sceneQuery.updateObjectPosition(objectId, newPosition) for an object that
\* getObjectById has just found
storeAfterMove(objs, id, np) == WritePosition(objs, id, np)

\* threeObject.position.set(x, y, z): the position is written at once; tweens
\* already running on the handle are left alone.
position_set(objs, h, v) == [objs EXCEPT ![h].position = v]

\* animate ? gsap.to(threeObject.position, {..., duration: 1.0}) :
\*           threeObject.position.set(x, y, z)
handleAfterMove(objs, h, np, animate) ==
    IF animate THEN gsap_to_for(objs, h, "position", np, 2 * TweenTicks)
    ELSE position_set(objs, h, np)

\* window.agentAPI.moveObject(objectId, newPosition, animate) with x, y and z supplied
moveObject(objectId, newPosition, animate) ==
    LET threeObject == loadedObjects[objectId]
        dbObject == getObjectById(objects, objectId)
        found == threeObject # 0 /\ dbObject # 0
    IN  /\ found => Len(sceneObjs[threeObject].tweens) < MaxTweens
        /\ sceneObjs' = IF found
                        THEN handleAfterMove(sceneObjs, threeObject, newPosition, animate)
                        ELSE sceneObjs
        /\ objects' = IF found THEN storeAfterMove(objects, objectId, newPosition)
                      ELSE objects
        /\ storeCall' = [op |-> "moveObject", id |-> objectId, arg |-> newPosition,
                         ret |-> IF found THEN "true" ELSE "false", before |-> objects,
                         animate |-> animate]
        /\ UNCHANGED <<structure, sceneDatabase, loaderCall, queries, net,
                         authority, broadcasts, loadedObjects, pendingLoads,
                       addLoads, adds, dispatch, goals, chanVars, headVars>>

\* the ids addObjectToScene is called with: one of an object of the database and
\* one of a new object
AddIds == {"chair_01", "lamp_01"}

\* data of addObjectToScene: { objectId, objectData }
AddData(i, p) == [objectId |-> i, objectData |-> [id |-> i, position |-> p, rotation |-> ZeroVec]]

AddInputs == {AddData(i, p) : i \in AddIds, p \in {Vec(0, 0, 0), Vec(1, 0, 1)}}

\* if (loadedObjects.has(objectId)) { warn; return }
alreadyLoaded(reg, objectId) == reg[objectId] # 0

\* addObjectToScene(data, loadedObjects, scene): the check of the registry, then
\* gltfLoader.load, whose callback runs later
addObjectToScene(data) ==
    /\ adds < MaxAdds
    /\ adds' = adds + 1
    /\ addLoads' = IF alreadyLoaded(loadedObjects, data.objectId)
                   THEN addLoads
                   ELSE Append(addLoads, data)
    /\ UNCHANGED <<net, authority, broadcasts, loadedObjects, sceneObjs, pendingLoads,
                   dispatch, goals, storeVars, chanVars, headVars>>

\* the success callback of one load of addObjectToScene: scene.add(gltf.scene), then
\* loadedObjects.set(objectId, gltf.scene); the scale and its spawn tween are not
\* part of the rendered objects of the model
AddLoadComplete(k) ==
    /\ k \in 1..Len(addLoads)
    /\ LET data == addLoads[k]
           sc == AddMesh(Scene(loadedObjects, sceneObjs), data.objectId,
                         SceneObj(data.objectData.id, data.objectData.position,
                                  data.objectData.rotation))
       IN  /\ loadedObjects' = sc.reg
           /\ sceneObjs' = sc.objs
    /\ addLoads' = RemoveAt(addLoads, k)
    /\ UNCHANGED <<net, authority, broadcasts, pendingLoads, adds, dispatch, goals,
                   storeVars, chanVars, headVars>>

\* power2.inOut at t of dur ticks, as a fraction of dur * dur: 2f^2 up to the
\* middle, 1 - 2(1 - f)^2 after it
EaseInOut(t, dur) ==
    IF 2 * t < dur THEN 2 * t * t ELSE dur * dur - 2 * (dur - t) * (dur - t)

\* the value a tween of dur ticks writes after t ticks
InterpFor(from, to, t, dur) ==
    [a \in Axes |-> from[a] + ((to[a] - from[a]) * EaseInOut(t, dur)) \div (dur * dur)]

\* the value a tween of 0.5 s writes after t of TweenTicks ticks
Interp(from, to, t) == InterpFor(from, to, t, TweenTicks)

\* tweens render in the order they were created, so the last one's write stays
LastWriter(tws) == tws[Len(tws)]

Rendered(obj, prop, adv) ==
    LET mine == SelectSeq(adv, LAMBDA tw : tw.prop = prop)
    IN  IF mine = <<>> THEN obj[prop]
        ELSE LET tw == LastWriter(mine) IN InterpFor(tw.from, tw.to, tw.t, tw.dur)

TickObj(obj) ==
    LET adv == [k \in 1..Len(obj.tweens) |-> [obj.tweens[k] EXCEPT !.t = @ + 1]]
    IN  [obj EXCEPT !.position = Rendered(obj, "position", adv),
                    !.rotation = Rendered(obj, "rotation", adv),
                    !.tweens = SelectSeq(adv, LAMBDA tw : tw.t < tw.dur)]

\* one tick of the gsap ticker: every running tween advances and writes its value
GsapTick ==
    /\ \E h \in 1..Len(sceneObjs) : sceneObjs[h].tweens # <<>>
    /\ sceneObjs' = [h \in 1..Len(sceneObjs) |-> TickObj(sceneObjs[h])]
    /\ UNCHANGED <<net, authority, broadcasts, loadedObjects, pendingLoads, addLoads, adds,
                   dispatch, goals,
                   storeVars, chanVars, headVars>>

NoDispatch == [n |-> 0, frame |-> SavedFrame, out |-> "none", faults |-> FALSE]

SyncNext ==
    \/ \E frame \in Frames : Broadcast(frame)
    \/ OnMessage
    \/ \E id \in StoreIds : LoadComplete(id)
    \/ GsapTick

----------------------------------------------------------------------------
\* sceneLoader.js: the module variable sceneDatabase and the functions that read it

\* let sceneDatabase = null
Null == "null"

\* the object imported from sceneData.json, and a database that a caller built and
\* passes to the constructor itself
sceneDataImport == "sceneData.json"
OwnDatabase == "database of the caller"
Databases == {sceneDataImport, OwnDatabase}

\* SceneQuery instances constructed in one run
MaxQueries == 3

\* the outcome of a call that throws
Throws == "throws"

returnsWhatIsThere(sd) == sd

\* getSceneDatabase(): if (!sceneDatabase) throw new Error(...); return sceneDatabase
getSceneDatabase(sd) == IF sd = Null THEN Throws ELSE sd

\* new SceneQuery(database): this.db = database || getSceneDatabase()
SceneQuery_db(database, sd) == IF database # Null THEN database ELSE getSceneDatabase(sd)

NoLoaderCall == [op |-> "none", arg |-> Null, ret |-> "none", loadedBefore |-> FALSE,
                 completed |-> FALSE]

LoaderCall(op, arg, ret, completed) ==
    [op |-> op, arg |-> arg, ret |-> ret, loadedBefore |-> loaderCall.completed,
     completed |-> completed]

\* loadSceneDatabase(): sceneDatabase = sceneDataImport, the name of the scene is
\* logged, the database is returned; the body has no await, it runs to its end in
\* one step
loadSceneDatabase ==
    /\ sceneDatabase' = sceneDataImport
    /\ loaderCall' = LoaderCall("loadSceneDatabase", Null, sceneDataImport, TRUE)
    /\ UNCHANGED <<objects, storeCall, structure, queries, chanVars, syncVars, headVars>>

GetSceneDatabaseCall ==
    /\ loaderCall' = LoaderCall("getSceneDatabase", Null, getSceneDatabase(sceneDatabase),
                                loaderCall.completed)
    /\ UNCHANGED <<objects, storeCall, structure, sceneDatabase, queries, chanVars,
                   syncVars, headVars>>

\* new SceneQuery() when database is Null, new SceneQuery(database) otherwise; a
\* constructor that throws leaves no instance behind
SceneQuery_constructor(database) ==
    /\ Len(queries) < MaxQueries
    /\ queries' = IF SceneQuery_db(database, sceneDatabase) = Throws THEN queries
                  ELSE Append(queries, SceneQuery_db(database, sceneDatabase))
    /\ loaderCall' = LoaderCall("SceneQuery", database,
                                SceneQuery_db(database, sceneDatabase),
                                loaderCall.completed)
    /\ UNCHANGED <<objects, storeCall, structure, sceneDatabase, chanVars, syncVars,
                   headVars>>

LoaderNext ==
    \/ loadSceneDatabase
    \/ GetSceneDatabaseCall
    \/ \E database \in Databases \cup {Null} : SceneQuery_constructor(database)

----------------------------------------------------------------------------
InitStore ==
    /\ objects = <<Entity("chair_01", Vec(0, 0, 0)), Entity("table_01", Vec(1, 0, 1))>>
    /\ storeCall = NoStoreCall
    /\ structure = SceneStructure
    /\ sceneDatabase = Null
    /\ loaderCall = NoLoaderCall
    /\ queries = <<>>

InitRest ==
    /\ sockets = <<>>
    /\ wsCur = 0
    /\ timers = 0
    /\ chanEvent = "none"
    /\ net = <<>>
    /\ authority = [i \in StoreIds |-> NoGoal]
    /\ broadcasts = 0
    /\ dispatch = NoDispatch
    /\ addLoads = <<>>
    /\ adds = 0
    /\ goals = [i \in RegIds |-> NoGoal]
    /\ hWs = 0
    /\ isTracking = FALSE
    /\ tick = NoTick
    /\ ticks = 0
    /\ eligible = 0
    /\ sent = 0
    /\ headCall = "none"
    /\ euler = NoEuler
    /\ shutdown = FALSE
    /\ urls = <<>>

\* the scene as setupScene leaves it: the structure is in the scene and the registry,
\* the loads of the objects are under way
SceneSetUp ==
    /\ loadedObjects = loadStructure(structure, EmptyScene).reg
    /\ sceneObjs = loadStructure(structure, EmptyScene).objs
    /\ pendingLoads = {objects[k].id : k \in 1..Len(objects)}

\* the scene before setupScene has run
SceneNotSetUp ==
    /\ loadedObjects = EmptyScene.reg
    /\ sceneObjs = EmptyScene.objs
    /\ pendingLoads = {}

\* the page is served by the development server on the machine of the browser
Init == InitStore /\ InitRest /\ SceneSetUp /\ page = LocalPage

InitScene == InitStore /\ InitRest /\ SceneNotSetUp /\ page = LocalPage

NextStore ==
    \/ \E id \in StoreIds \cup {NoId}, np \in PartialPositions :
            SceneQuery_updateObjectPosition(id, np)
    \/ \E id \in StoreIds, a \in AxisVals : SceneQuery_addObject(Entity(id, Vec(a, 0, 1)))
    \/ \E id \in StoreIds \cup {NoId} : SceneQuery_removeObject(id)
    \/ \E position \in QueryPoints, radius \in QueryRadii :
            SceneQuery_getObjectsNearPosition(position, TRUE, radius)
    \/ \E position \in QueryPoints :
            SceneQuery_getObjectsNearPosition(position, FALSE, 0)

SpecStore == Init /\ [][NextStore]_vars

\* the loader module and the SceneQuery instances made from it
SpecLoad == Init /\ [][LoaderNext]_vars

NextChannel == ChannelNext \/ HeadNext

SpecChannel == Init /\ [][NextChannel]_vars

\* the timer callback of setTimeout always runs once its delay has elapsed
FairChannel == SpecChannel /\ WF_vars(ReconnectTimer)

\* the channel with an owner that may tear it down
NextConnect == ChannelNext \/ \E s \in HeldSockets : OwnerClose(s)

\* the channel, head tracking and an owner that may tear the channel down
NextOwner == NextConnect \/ HeadNext

SpecOwner == Init /\ [][NextOwner]_vars

\* the channel of a page served from any of the locations
InitAnyPage == InitStore /\ InitRest /\ SceneSetUp /\ page \in Pages

SpecConnect == InitAnyPage /\ [][NextConnect]_vars

NextEuler == \E q \in Quats : EulerCall(q)

SpecEuler == Init /\ [][NextEuler]_vars

NextSync == ChannelNext \/ SyncNext

SpecSync == Init /\ [][NextSync]_vars

\* objects added to the scene while the objects of the database load
NextAdd ==
    \/ \E data \in AddInputs : addObjectToScene(data)
    \/ \E k \in 1..MaxAdds : AddLoadComplete(k)
    \/ \E id \in StoreIds : LoadComplete(id)

SpecAdd == Init /\ [][NextAdd]_vars

\* an agent that moves objects while they load and while tweens run
NextAgent ==
    \/ \E id \in MoveIds, np \in {U1, U2}, animate \in BOOLEAN : moveObject(id, np, animate)
    \/ \E id \in StoreIds : LoadComplete(id)
    \/ GsapTick

SpecAgent == Init /\ [][NextAgent]_vars

\* the client from before setupScene on
NextScene == SetupScene \/ NextSync

SpecScene == InitScene /\ [][NextScene]_vars

----------------------------------------------------------------------------
(* Claims about the connection and head tracking, checked under SpecChannel
   and, for liveness, FairChannel *)

SomeSocketCloses ==
    \E s \in SocketIds : sockets[s] # "CLOSED" /\ sockets'[s] = "CLOSED"

\* C1: every close event of a socket (open or still connecting) schedules one
\* reconnect, nothing but the close handler schedules one, and a disconnected
\* channel is always followed by a connecting one once the timer runs, at the
\* first close and at every later one.
C1_Reconnect ==
    /\ [][SomeSocketCloses => timers' = timers + 1]_vars
    /\ [][timers' > timers => SomeSocketCloses]_vars
    /\ (ChannelState = "Disconnected") ~> (ChannelState = "Connecting")

\* C1 witness: the second socket has closed too and the timer has created a third
\* one, which is connecting.
C1_Witness ==
    /\ Len(sockets) = 3
    /\ sockets[1] = "CLOSED" /\ sockets[2] = "CLOSED"
    /\ ChannelState = "Connecting"
    /\ chanEvent = "timer"

\* C2: on every render tick with tracking on, a viewer pose, a socket bound by
\* initHeadTracking and the channel Open, one head_position_update is written, in
\* the first Open period and in every Open period after a reconnect.
C2_TelemetryInEveryOpenPeriod ==
    (tick.tracking /\ tick.input = "pose" /\ tick.bound # 0 /\ tick.channel = "Open")
        => tick.wrote = 1

\* C3: a head_position_update is written only to a socket that is OPEN, with the
\* channel Open; a tick in any other state writes nothing, and the number of
\* messages written never exceeds the number of ticks that had tracking on, a
\* pose and an OPEN socket.
C3_LossySend ==
    /\ sent <= eligible
    /\ tick.wrote = 1 => (tick.boundState = "OPEN" /\ tick.channel = "Open")
    /\ tick.input # "pose" => tick.wrote = 0

\* C3 witness: after one sample was written, a tick with tracking on and a pose
\* found the channel disconnected and wrote nothing.
C3_Witness ==
    /\ sent = 1 /\ ticks >= 2
    /\ tick.tracking /\ tick.input = "pose" /\ tick.bound # 0
    /\ tick.channel = "Disconnected"
    /\ tick.wrote = 0

----------------------------------------------------------------------------
(* Claims about inbound dispatch and reconciliation, checked under SpecSync *)

Dispatched == dispatch'.n = dispatch.n + 1

\* C4: a frame that is not JSON, has no or an unrecognized type, or has a
\* recognized type without its data payload leaves the sockets, the reconnect
\* timers and the Map loadedObjects as they were, and every well-formed position
\* or rotation update delivered after such a frame still reaches
\* updateObjectPosition / updateObjectRotation.
C4_ProtocolFaultTolerated ==
    [][Dispatched =>
         /\ Faulty(dispatch'.frame) =>
                /\ sockets' = sockets /\ wsCur' = wsCur /\ timers' = timers
                /\ loadedObjects' = loadedObjects
         /\ (dispatch.faults /\ WellFormed(dispatch'.frame)) =>
                /\ dispatch'.out \in {"tween", "warned"}
                /\ sockets' = sockets]_vars

\* C4 witness: after a faulty frame, a well-formed update of a registered object
\* was delivered on the same open socket and started its tween.
C4_Witness ==
    /\ dispatch.n >= 2 /\ dispatch.faults
    /\ WellFormed(dispatch.frame) /\ dispatch.out = "tween"
    /\ ChannelState = "Open" /\ Len(sockets) = 1

\* C5: a position or rotation update for an id that has no entry in loadedObjects
\* raises no error, starts no tween on any object and leaves loadedObjects as it
\* was.
C5_AbsentIdNoOp ==
    [][(Dispatched /\ IsUpdate(dispatch'.frame) /\ dispatch'.frame.hasData
            /\ loadedObjects[dispatch'.frame.objectId] = 0) =>
         /\ dispatch'.out = "warned"
         /\ sceneObjs' = sceneObjs
         /\ loadedObjects' = loadedObjects]_vars

\* C5 witness: an update for chair_01 was delivered before its model had loaded,
\* while another object was already in the scene.
C5_Witness ==
    /\ dispatch.out = "warned"
    /\ dispatch.frame.objectId = "chair_01"
    /\ "chair_01" \in pendingLoads
    /\ Cardinality(pendingLoads) = 1

\* C6: once no position tween of a registered object is running, its position is
\* the value of the last position update applied to it, on all three axes, also
\* when that update arrived while an earlier one was still being interpolated.
C6_LastWriteWins ==
    \A i \in RegIds :
        (loadedObjects[i] # 0 /\ goals[i].hasPosition
            /\ Running(sceneObjs[loadedObjects[i]], "position") = <<>>) =>
                sceneObjs[loadedObjects[i]].position = goals[i].position

\* C6 witness: U2 arrived for chair_01 while the tween towards U1 was running, and
\* all tweens have ended with the object at U2.
C6_Witness ==
    /\ loadedObjects["chair_01"] # 0
    /\ goals["chair_01"].overrode
    /\ goals["chair_01"].superseded = U1
    /\ goals["chair_01"].position = U2
    /\ sceneObjs[loadedObjects["chair_01"]].tweens = <<>>
    /\ sceneObjs[loadedObjects["chair_01"]].position = U2

Quiescent ==
    /\ ChannelState = "Open"
    /\ net = <<>>
    /\ pendingLoads = {}
    /\ \A h \in 1..Len(sceneObjs) : sceneObjs[h].tweens = <<>>

\* C7: when nothing is in flight any more (the channel is open, no frame is
\* undelivered, every model has loaded and no tween is running), the rendered
\* object of every entity has the position and the rotation the authority
\* broadcast last for it, whatever the channel and the loader were doing when
\* the update was broadcast.
C7_EventuallyConsistent ==
    Quiescent =>
        \A i \in StoreIds :
            /\ authority[i].hasPosition =>
                  /\ loadedObjects[i] # 0
                  /\ sceneObjs[loadedObjects[i]].position = authority[i].position
            /\ authority[i].hasRotation =>
                  /\ loadedObjects[i] # 0
                  /\ sceneObjs[loadedObjects[i]].rotation = authority[i].rotation

----------------------------------------------------------------------------
(* Claims about the SceneQuery store, checked under SpecStore *)

UpdateCalled == storeCall.op = "updateObjectPosition"
TargetIndex == getObjectById(storeCall.before, storeCall.id)

\* C8: SceneQuery.updateObjectPosition on an id that is in the store, with a
\* non-empty set of axes supplied, returns true; afterwards the entity it
\* addressed has every supplied axis at the supplied value and every other axis
\* at its previous value, and every other entity of the array is as it was.
C8_PartialMerge ==
    (UpdateCalled /\ TargetIndex # 0 /\ DOMAIN storeCall.arg # {}) =>
        /\ storeCall.ret = "true"
        /\ Len(objects) = Len(storeCall.before)
        /\ objects[TargetIndex].id = storeCall.id
        /\ DOMAIN objects[TargetIndex].position = Axes
        /\ \A a \in DOMAIN storeCall.arg :
                objects[TargetIndex].position[a] = storeCall.arg[a]
        /\ \A a \in Axes \ DOMAIN storeCall.arg :
                objects[TargetIndex].position[a] = storeCall.before[TargetIndex].position[a]
        /\ \A j \in 1..Len(objects) :
                j # TargetIndex => objects[j] = storeCall.before[j]

\* C8 witness: an update of x alone changed an entity whose y had been moved before,
\* in an array that holds a second entity.
C8_Witness ==
    /\ UpdateCalled /\ TargetIndex # 0
    /\ DOMAIN storeCall.arg = {"x"}
    /\ Len(objects) = 2
    /\ storeCall.before[TargetIndex].position.y = 1
    /\ objects[TargetIndex].position.x # storeCall.before[TargetIndex].position.x

\* C9: SceneQuery.updateObjectPosition on an id that no entity of the store has
\* returns false and leaves the array as it was: same entities, same order, same
\* field values.
C9_UnknownIdNoOp ==
    (UpdateCalled /\ TargetIndex = 0) =>
        /\ storeCall.ret = "false"
        /\ objects = storeCall.before

\* C9 witness: the call was made on a non-empty store with an id it does not hold
\* and with axes supplied.
C9_Witness ==
    /\ UpdateCalled /\ TargetIndex = 0
    /\ Len(storeCall.before) > 0
    /\ DOMAIN storeCall.arg = Axes

\* C10: no two entities of the store have the same id, after any sequence of
\* addObject, removeObject and updateObjectPosition calls on a store that started
\* with pairwise distinct ids.
C10_UniqueIds ==
    \A i, j \in 1..Len(objects) : i # j => objects[i].id # objects[j].id

NearCalled == storeCall.op = "getObjectsNearPosition"
EffectiveRadius == IF storeCall.given THEN storeCall.radius ELSE 1

\* C11: getObjectsNearPosition(p, r) returns, in store order, exactly the entities
\* whose Euclidean distance to p is at most r (distance squared at most r squared:
\* an entity at distance r is in, one farther away is out); without a radius
\* argument the radius is 1; the store is as it was.
C11_NearExact ==
    NearCalled =>
        /\ storeCall.result =
              SelectSeq(storeCall.before,
                        LAMBDA obj :
                            DistanceSquared(obj.position, storeCall.arg)
                                <= EffectiveRadius * EffectiveRadius)
        /\ objects = storeCall.before

\* C11 witness: a call without radius on a store that holds an entity at distance
\* exactly 1 from the point, which is returned, and one farther away, which is not.
C11_Witness ==
    /\ NearCalled /\ ~storeCall.given
    /\ Len(storeCall.before) = 2
    /\ Len(storeCall.result) = 1
    /\ DistanceSquared(storeCall.result[1].position, storeCall.arg) = 1

RemoveCalled == storeCall.op = "removeObject"
RemovedIndex == IndexOf(storeCall.before, storeCall.id)
IdsUnique(objs) == \A j, k \in 1..Len(objs) : objs[j].id = objs[k].id => j = k

\* C23: SceneQuery.removeObject(id) on a store that holds the id returns true and
\* takes out one entity with that id, the other entities staying as they were and
\* in their order; on a store that does not hold the id it returns false and leaves
\* the store as it was; after a removal from a store with pairwise distinct ids
\* getObjectById(id) finds nothing.
C23_RemoveObject ==
    RemoveCalled =>
        /\ RemovedIndex # 0 =>
              /\ storeCall.ret = "true"
              /\ Len(objects) = Len(storeCall.before) - 1
              /\ storeCall.before[RemovedIndex].id = storeCall.id
              /\ \A j \in 1..Len(objects) :
                    objects[j] = storeCall.before[IF j < RemovedIndex THEN j ELSE j + 1]
              /\ IdsUnique(storeCall.before) => getObjectById(objects, storeCall.id) = 0
        /\ RemovedIndex = 0 =>
              /\ storeCall.ret = "false"
              /\ objects = storeCall.before

\* C23 witness: the id was removed from a store that held it twice, after another
\* entity; one entity with the id and the other entity are left.
C23_Witness ==
    /\ RemoveCalled /\ storeCall.ret = "true"
    /\ Len(storeCall.before) = 2
    /\ RemovedIndex = 2
    /\ Len(objects) = 1 /\ objects[1].id # storeCall.id

----------------------------------------------------------------------------
(* Claims about inbound messages and the store, checked under SpecSync *)

\* C12: dispatching an object_position_updated message for a registered id gives
\* that id's rendered object one more tween, whose end value is the position of the
\* message, and changes no other rendered object, no registry entry and no socket;
\* no dispatched message, whatever it holds, changes the entity store.
C12_InboundTouchesHandleOnly ==
    [][Dispatched =>
         LET frame == Head(net)
             h == loadedObjects[frame.objectId]
         IN  /\ objects' = objects
             /\ (WellFormed(frame) /\ frame.type = PosType /\ h # 0) =>
                   /\ sceneObjs'[h].tweens =
                         Append(sceneObjs[h].tweens,
                                [prop |-> "position", from |-> sceneObjs[h].position,
                                 to |-> frame.val, t |-> 0, dur |-> TweenTicks])
                   /\ sceneObjs'[h].position = sceneObjs[h].position
                   /\ sceneObjs'[h].rotation = sceneObjs[h].rotation
                   /\ Len(sceneObjs') = Len(sceneObjs)
                   /\ \A g \in 1..Len(sceneObjs) : g # h => sceneObjs'[g] = sceneObjs[g]
                   /\ loadedObjects' = loadedObjects
                   /\ sockets' = sockets]_vars

\* C12 witness: a position update for a registered object has been dispatched, its
\* tween runs towards the position of the message, a second object is rendered, and
\* the store still holds the position the entity was loaded with.
C12_Witness ==
    /\ dispatch.out = "tween" /\ dispatch.frame.type = PosType
    /\ pendingLoads = {}
    /\ LET h == loadedObjects[dispatch.frame.objectId]
       IN  /\ h # 0
           /\ sceneObjs[h].tweens # <<>>
           /\ sceneObjs[h].tweens[Len(sceneObjs[h].tweens)].to = dispatch.frame.val
           /\ objects[getObjectById(objects, dispatch.frame.objectId)].position
                 # dispatch.frame.val

----------------------------------------------------------------------------
(* Claims about head tracking calls and render ticks, checked under SpecChannel *)

FlagCall == headCall' \in {"startHeadTracking", "stopHeadTracking"} /\ headCall' # headCall

\* C13: when stopHeadTracking has returned the flag is off, it stays off until
\* startHeadTracking is called, a render tick with the flag off writes nothing, and
\* a call of startHeadTracking or stopHeadTracking changes the flag and nothing
\* else: not the bound socket, not a socket's state, not a timer, not a counter.
C13_StopImmediate ==
    [][/\ headCall' = "stopHeadTracking" => ~isTracking'
       /\ (ticks' = ticks + 1 /\ ~isTracking) => (sent' = sent /\ tick'.wrote = 0)
       /\ (~isTracking /\ isTracking') => headCall' = "startHeadTracking"
       /\ (FlagCall \/ isTracking' # isTracking) =>
             UNCHANGED <<hWs, tick, ticks, eligible, sent, euler, chanVars, storeVars,
                         syncVars>>]_vars

\* C13 witness: a sample was written, then tracking was stopped, and a render tick
\* with a pose and the bound socket OPEN wrote nothing.
C13_Witness ==
    /\ headCall = "updateHeadTracking"
    /\ sent >= 1
    /\ ~tick.tracking /\ tick.input = "pose" /\ tick.boundState = "OPEN"
    /\ tick.wrote = 0

SkippedTick(t) == t.tracking /\ t.boundState = "OPEN" /\ t.input # "pose"

\* C14: a render tick with tracking on and the bound socket OPEN but no frame, no
\* reference space or no viewer pose writes nothing and leaves the flag, the bound
\* socket and every socket as they were; the next tick that has a pose, with
\* tracking still on and the socket still OPEN, writes one sample.
C14_MissingPoseSkipped ==
    [][ticks' = ticks + 1 =>
         /\ SkippedTick(tick') =>
               /\ tick'.wrote = 0 /\ sent' = sent
               /\ UNCHANGED <<isTracking, hWs, chanVars>>
         /\ (SkippedTick(tick) /\ tick'.tracking /\ tick'.boundState = "OPEN"
               /\ tick'.input = "pose") =>
               (tick'.wrote = 1 /\ sent' = sent + 1)]_vars

\* C14 witness: after a sample was written, a tick with tracking on and the bound
\* socket OPEN found no pose and wrote nothing; tracking is still on.
C14_Witness ==
    /\ headCall = "updateHeadTracking"
    /\ sent >= 1
    /\ SkippedTick(tick) /\ tick.input = "nopose"
    /\ tick.wrote = 0
    /\ isTracking

\* C21: no head_position_update is written on a tick at which no socket is bound,
\* whatever calls of startHeadTracking and stopHeadTracking came before, and the
\* publisher is only ever unbound and not tracking, bound and not tracking, or
\* bound and tracking: the flag is never on while no socket is bound.
C21_TelemetryLifecycle ==
    /\ tick.bound = 0 => tick.wrote = 0
    /\ isTracking => hWs # 0

InitCall == headCall' = "initHeadTracking" /\ (headCall # "initHeadTracking" \/ hWs' # hWs)

\* C22: a call of initHeadTracking leaves the tracking flag as it was and changes
\* nothing but the bound socket, and calling it once more with the socket that is
\* bound leaves the publisher as it is.
C22_InitIdempotent ==
    [][InitCall =>
          /\ isTracking' = isTracking
          /\ UNCHANGED <<tick, ticks, eligible, sent, chanVars>>
          /\ bindChannel(Publisher(hWs', isTracking'), hWs') = Publisher(hWs', isTracking')
          /\ \A w \in HeldSockets \cup {0} :
                 bindChannel(bindChannel(Publisher(hWs, isTracking), w), w)
                    = bindChannel(Publisher(hWs, isTracking), w)]_vars

\* C22 witness: initHeadTracking was called with the socket an earlier tick already
\* found bound, while tracking was on, and tracking is still on.
C22_Witness ==
    /\ headCall = "initHeadTracking"
    /\ hWs # 0 /\ tick.bound = hWs
    /\ tick.tracking /\ isTracking

LiveSockets == {s \in SocketIds : sockets[s] \in {"CONNECTING", "OPEN"}}

\* C24: from the first call of setupWebSocket on, through any open, error, close and
\* timer events, the sockets that are connecting or open and the pending reconnect
\* timers together number exactly one; an error event schedules nothing, and the
\* close event that follows an error event schedules one reconnect.
C24_SingleConnection ==
    /\ [](sockets # <<>> => Cardinality(LiveSockets) + timers = 1)
    /\ [][(chanEvent' = "error" /\ sockets' = sockets) => timers' = timers]_vars
    /\ [][(chanEvent = "error" /\ SomeSocketCloses) => timers' = timers + 1]_vars

\* C24 witness: the socket created by a reconnect has closed as well; no socket is
\* live and one timer is pending.
C24_Witness ==
    /\ Len(sockets) = 2
    /\ sockets[1] = "CLOSED" /\ sockets[2] = "CLOSED"
    /\ chanEvent = "close"
    /\ timers = 1

\* C25: every object in the rendering scene is the object the registry maps its id
\* to, so no id has two objects in the scene, whatever the order of
\* addObjectToScene calls and load callbacks.
C25_NoDuplicateInstantiation ==
    \A h \in 1..Len(sceneObjs) : loadedObjects[sceneObjs[h].id] = h

MoveCalled == storeCall'.op = "moveObject" /\ storeCall' # storeCall

\* the position an object is heading for: the end value of the position tween
\* created last, or its position when none runs
TargetPosition(obj) ==
    LET mine == Running(obj, "position")
    IN  IF mine = <<>> THEN obj.position ELSE mine[Len(mine)].to

\* C26: agentAPI.moveObject on an id without registry entry or without entity in the
\* store returns false and changes no rendered object, no registry entry and no
\* entity; on an id that has both it returns true, and afterwards the position of
\* the entity in the store and the position the rendered object is heading for are
\* the supplied value on every supplied axis, with and without animation.
C26_MoveKeepsInStep ==
    [][MoveCalled =>
         LET id == storeCall'.id
             np == storeCall'.arg
             h == loadedObjects[id]
             k == getObjectById(objects, id)
         IN  IF h = 0 \/ k = 0
             THEN /\ storeCall'.ret = "false"
                  /\ UNCHANGED <<objects, sceneObjs, loadedObjects>>
             ELSE /\ storeCall'.ret = "true"
                  /\ loadedObjects' = loadedObjects
                  /\ \A a \in DOMAIN np :
                        /\ objects'[k].position[a] = np[a]
                        /\ TargetPosition(sceneObjs'[h])[a] = objects'[k].position[a]]_vars

----------------------------------------------------------------------------
(* Claim about tearing the channel down, checked under SpecOwner *)

\* C15: once the owner has closed the socket it holds, no further reconnect is
\* scheduled and no new socket is created.
C15_NoReconnectAfterShutdown ==
    [][shutdown => (timers' <= timers /\ Len(sockets') = Len(sockets))]_vars

----------------------------------------------------------------------------
(* Claims about the order and the types of inbound messages, checked under SpecSync *)

\* C16 as stated: for every entity id, the tweens started on its rendered object
\* are, in order, the updates received for that id.
C16_TargetsAreReceived ==
    \A i \in StoreIds : goals[i].targets = goals[i].received

\* C16: for every id the tweens started on its rendered object are, in order and without gap or repeat,
\* the well-formed updates received for that id while it had a registry entry,
\* whatever was received for other ids in between; an update received while the id
\* has no registry entry starts no tween.
C16_ReceiptOrder ==
    /\ \A i \in RegIds : goals[i].targets = goals[i].whileRegistered
    /\ \A i \in RegIds : loadedObjects[i] = 0 => goals[i].targets = <<>>

\* C16 witness: two updates with different values were received for one registered
\* id, and its object was given the two tweens in that order.
C16_Witness ==
    \E i \in StoreIds :
        /\ Len(goals[i].targets) = 2
        /\ goals[i].targets[1].val # goals[i].targets[2].val
        /\ goals[i].targets = goals[i].received

\* C17: dispatching a scene_saved message, or a JSON message whose type is none of
\* the three known ones, changes no registry entry, no rendered object or tween,
\* no store entity, no socket, no timer and nothing of head tracking.
C17_OtherTypesChangeNothing ==
    [][(Dispatched /\ Head(net).json /\ Head(net).type \notin {PosType, RotType}) =>
          /\ dispatch'.out \in {"saved", "ignored"}
          /\ UNCHANGED <<loadedObjects, sceneObjs, pendingLoads, storeVars, chanVars,
                         headVars>>]_vars

\* C17 witness: a message of an unknown type was dispatched while a tween started by
\* an earlier update was running.
C17_Witness ==
    /\ dispatch.n = 2 /\ dispatch.out = "ignored" /\ dispatch.frame.json
    /\ \E h \in 1..Len(sceneObjs) : sceneObjs[h].tweens # <<>>

----------------------------------------------------------------------------
(* Claim about the URL of the socket, checked under SpecConnect *)

\* C18: every socket, the first and each one created by a reconnect, is constructed
\* with the URL <scheme>//<hostname of the page>:8000/ws/scene, where the scheme is
\* wss: exactly when the protocol of the page is https: and ws: otherwise.
C18_UrlFromPage ==
    \A s \in 1..Len(urls) :
        urls[s] = Url(IF page.protocol = "https:" THEN "wss:" ELSE "ws:",
                      page.hostname, 8000, "/ws/scene")

----------------------------------------------------------------------------
(* Claim about quaternion_to_euler, checked under SpecEuler *)

Clamp(n, lo, hi) == IF n < lo THEN lo ELSE IF n > hi THEN hi ELSE n

\* C19: for every quaternion with finite components the pitch returned by
\* quaternion_to_euler is the arcsine of sinp = 2(w*y - z*x) clamped to [-1, 1]:
\* sign(sinp)*pi/2 when |sinp| >= 1, asin(sinp) when |sinp| < 1, never NaN, also for
\* sinp beyond +-1; the identity quaternion (0,0,0,1) gives (0, 0, 0).
C19_PitchClamped ==
    euler.called =>
        /\ euler.out.y = Asin(Clamp(Sinp(euler.q), -QOne, QOne), QOne)
        /\ euler.out.y # NaN
        /\ Abs(Sinp(euler.q)) >= QOne => euler.out.y = HalfPi(Sign(Sinp(euler.q)))
        /\ Abs(Sinp(euler.q)) < QOne => euler.out.y.fn \in {"asin", "zero"}
        /\ euler.q = IdentityQuat =>
              euler.out = [x |-> ZeroAngle, y |-> ZeroAngle, z |-> ZeroAngle]

\* C19 witness: a quaternion that is not of unit length, with sinp = 2 beyond the
\* domain of the arcsine, was converted and its pitch is +pi/2.
C19_Witness ==
    /\ euler.called
    /\ Sinp(euler.q) = 2 * QOne
    /\ euler.out.y = HalfPi(1)

----------------------------------------------------------------------------
(* Claim about the walls in the registry, checked under SpecScene *)

RegisteredKeys == {k \in DOMAIN loadedObjects : loadedObjects[k] # 0}

\* C20: once loadStructure has run, the registry holds for every wall W of the scene
\* source the keys W.id_front and W.id_back, mapped to two different meshes that
\* carry these ids, and no key W.id; apart from the floor and the loaded objects it
\* holds no other key, and the scene source still has its walls, one per id.
C20_WallExpansion ==
    sceneObjs # <<>> =>
        /\ \A k \in 1..Len(structure.walls) :
              LET W == structure.walls[k]
                  front == W.id \o "_front"
                  back == W.id \o "_back"
              IN  /\ loadedObjects[front] # 0 /\ loadedObjects[back] # 0
                  /\ loadedObjects[front] # loadedObjects[back]
                  /\ sceneObjs[loadedObjects[front]].id = front
                  /\ sceneObjs[loadedObjects[back]].id = back
                  /\ loadedObjects[W.id] = 0
        /\ RegisteredKeys =
              {structure.floor.id}
                 \cup {structure.walls[k].id \o "_front" : k \in 1..Len(structure.walls)}
                 \cup {structure.walls[k].id \o "_back" : k \in 1..Len(structure.walls)}
                 \cup ({objects[k].id : k \in 1..Len(objects)} \ pendingLoads)
        /\ structure = SceneStructure
        /\ \A j, k \in 1..Len(structure.walls) :
              structure.walls[j].id = structure.walls[k].id => j = k

\* C20 witness: setupScene has run for a scene with two walls, the objects are
\* loaded too, and the registry holds seven keys, four of them faces of walls.
C20_Witness ==
    /\ Len(structure.walls) = 2
    /\ Len(sceneObjs) = 7
    /\ pendingLoads = {}
    /\ Cardinality(RegisteredKeys) = 7
    /\ loadedObjects["wall_2_back"] # 0

----------------------------------------------------------------------------
\* Claim about the order of loading and reading the scene database

\* C27: getSceneDatabase, and the SceneQuery constructor called without a database,
\* raise an error whenever no loadSceneDatabase has completed before the call; once
\* one has completed they return, respectively bind, the loaded database and do not
\* raise; a SceneQuery constructed with a database of its own binds that database
\* whatever the load state; a loaded database is never unloaded again.
C27_LoadOrdering ==
    /\ loaderCall.completed <=> sceneDatabase # Null
    /\ loaderCall.completed => sceneDatabase = sceneDataImport
    /\ loaderCall.op = "getSceneDatabase" \/ (loaderCall.op = "SceneQuery" /\ loaderCall.arg = Null)
          => /\ ~loaderCall.loadedBefore => loaderCall.ret = Throws
             /\ loaderCall.loadedBefore => loaderCall.ret = sceneDataImport
    /\ loaderCall.op = "SceneQuery" /\ loaderCall.arg # Null
          => loaderCall.ret = loaderCall.arg
    /\ \A k \in 1..Len(queries) : queries[k] \in Databases

\* C27 witness: a SceneQuery constructed without a database after the load has
\* completed is bound to the loaded database.
C27_Witness ==
    /\ loaderCall.op = "SceneQuery"
    /\ loaderCall.arg = Null
    /\ loaderCall.loadedBefore
    /\ loaderCall.ret = sceneDataImport
    /\ queries # <<>>
    /\ queries[Len(queries)] = sceneDataImport

====
